---------------------------- MODULE Spec2Model ----------------------------
(***************************************************************************)
(* A model of the machinebox/graphql client.                               *)
(*                                                                         *)
(*  - The retry-aware unary path: Client.Run -> executeRequest ->          *)
(*    sendRequest (src/unnamed/part_002, src/error.go).                    *)
(*  - The subscription multiplexer: SubscriptionClient with its dispatch   *)
(*    worker subWork, Subscribe, Unsubscribe and Close                     *)
(*    (src/unnamed/part_001).                                              *)
(*                                                                         *)
(* RunSpec is the state machine of one call to Run; SubSpec is the state   *)
(* machine of one SubscriptionClient after a successful handshake;         *)
(* ConnSpec begins before the handshake, at Client.SubscriptionClient.     *)
(***************************************************************************)
EXTENDS Integers, Sequences, FiniteSets, TLC

(***************************************************************************)
(* Bounds of the model.                                                    *)
(***************************************************************************)
\* largest MaxTries a retry configuration is drawn with
MaxTriesBound == 2
\* length of the request body, in bytes
BodyLen == 2
\* longest errors list of a response envelope
MaxErrs == 2
\* number of Subscribe calls made on the connection
MaxSubscribers == 2
\* number of data, error and complete frames the server sends
MaxFrames == 2

(***************************************************************************)
(* Program constants.                                                      *)
(***************************************************************************)
NoPolicy == ""
Linear == "linear"
ExponentialBackoff == "exponential_backoff"

errNotFound == "not_found"
errCapacityExceeded == "capacity_exceeded"
errServiceUnavailable == "service_unavailable"
errServiceFailure == "service_failure"
errInternal == "internal_error"

\* http.StatusTooManyRequests, the one non-5xx status retried by default
StatusTooManyRequests == 429

Min(a, b) == IF a <= b THEN a ELSE b

Take(s, n) == SubSeq(s, 1, n)
Drop(s, n) == SubSeq(s, n + 1, Len(s))

SeqsUpTo(S, n) == UNION {[1..k -> S] : k \in 0..n}

(***************************************************************************)
(* The inputs of a Run: the client's configuration, the request body, and  *)
(* what the server may answer.                                             *)
(***************************************************************************)
\* the request body produced by the encoder
BodyFull == [i \in 1..BodyLen |-> i]

\* HTTP statuses the server answers with
Statuses == {200, 404, 429, 503}

\* configured Interval and MaxInterval values (seconds)
Intervals == {0, 1}
MaxIntervals == {0, 4}

\* explicit retryable-status sets a configuration may carry ({} = not configured)
RetryStatusSets == {{}, {200}}

defaultNoRetryConfig_TwoTries ==
    [Policy |-> NoPolicy, MaxTries |-> 2, Interval |-> 0, MaxInterval |-> 0,
     RetryStatus |-> {}]

defaultNoRetryConfig ==
    [Policy |-> NoPolicy, MaxTries |-> 1, Interval |-> 0, MaxInterval |-> 0,
     RetryStatus |-> {}]

\* the configurations WithRetryConfig can install (no validation is
\* performed); MaxInterval is read under ExponentialBackoff only
RetryConfigs ==
    [Policy : {NoPolicy}, MaxTries : {0}, Interval : {0}, MaxInterval : {0},
     RetryStatus : {{}}]
    \cup
    [Policy : {Linear}, MaxTries : 0..MaxTriesBound, Interval : Intervals,
     MaxInterval : {0}, RetryStatus : RetryStatusSets]
    \cup
    [Policy : {ExponentialBackoff}, MaxTries : 0..MaxTriesBound,
     Interval : Intervals, MaxInterval : MaxIntervals,
     RetryStatus : RetryStatusSets]

\* NewClient: a configuration without a policy is replaced by the no-retry one
NewClient(config) ==
    IF config.Policy = NoPolicy THEN defaultNoRetryConfig ELSE config

\* application errors a response envelope may list
GraphErrs ==
    { [Name |-> errCapacityExceeded, Message |-> "m1", Data |-> "x1"],
      [Name |-> errServiceUnavailable, Message |-> "m2", Data |-> "x2"],
      [Name |-> errServiceFailure, Message |-> "m3", Data |-> "x3"],
      [Name |-> errInternal, Message |-> "m4", Data |-> "x4"],
      [Name |-> errNotFound, Message |-> "m5", Data |-> "x5"] }

\* the errors that longer lists are made of: one that is retried at the
\* application level and one that is not
PairErrs == {e \in GraphErrs : e.Name \in {errInternal, errNotFound}}

\* the errors lists of an envelope: every list of at most one error, and the
\* longer lists, up to MaxErrs errors, over PairErrs
ErrLists ==
    SeqsUpTo(GraphErrs, 1) \cup UNION {[1..k -> PairErrs] : k \in 2..MaxErrs}

DataVals == {"d1", "d2"}

\* response bodies: not decodable, or an envelope whose errors field is
\* absent or a list
Envelopes ==
    { [decodable |-> FALSE, hasErrors |-> FALSE, errors |-> <<>>, data |-> "d1"] }
    \cup
    [decodable : {TRUE}, hasErrors : {FALSE}, errors : {<<>>}, data : DataVals]
    \cup
    [decodable : {TRUE}, hasErrors : {TRUE}, errors : ErrLists, data : DataVals]


(***************************************************************************)
(* State.                                                                  *)
(***************************************************************************)
VARIABLES
    \* ---- one call to Run (part_002) ----
    cfg,          \* c.retryConfig, as NewClient left it
    pc,           \* where Run is
    ctxErr,       \* ctx.Err(): "none", "canceled" or "deadline"
    gqlTry,       \* executeRequest: tryCount
    gqlInterval,  \* executeRequest: gqlRetryConfig.Interval
    tryCount,     \* sendRequest: tryCount
    rcInterval,   \* sendRequest: retryConfig.Interval (executeRequest's copy)
    statusCode,   \* sendRequest: statusCode
    resp,         \* the status of the response sendRequest returned
    grErrors,     \* gr.Errors
    grData,       \* gr.Data
    execBody,     \* executeRequest: bytes left in the reader `body`
    execBuf,      \* executeRequest: bytes teed into `buf`
    sendBody,     \* sendRequest: the reader `body`
    sendBuf,      \* sendRequest: bytes teed into `buf`
    result,       \* what Run returned
    seen,         \* sendRequest: the status of the latest response of this call
    \* ---- observations of the Run ----
    attempts,     \* physical HTTP exchanges issued so far
    cnt,          \* how many exchanges ended in each class of outcome
    last          \* the class of the latest exchange

runVars == <<cfg, pc, ctxErr, gqlTry, gqlInterval, tryCount, rcInterval,
             statusCode, resp, grErrors, grData, execBody, execBuf, sendBody,
             sendBuf, result, seen, attempts, cnt, last>>

\* ---- the subscription multiplexer (part_001) ----
VARIABLES
    subIdGen,     \* c.subIdGen
    subs,         \* c.subs: id -> sink (a function on the registered ids)
    subWait,      \* c.subWait: the WaitGroup's counter
    connClosed,   \* c.subWebsocket.Close() was called
    wrote,        \* the frames written to the connection, in order
    wpc,          \* where the dispatch worker subWork is
    panicking,    \* subWork is unwinding from a panic
    procDead,     \* the process ended: "no", "fatal" (log.Fatalf) or "panic"
    pending,      \* the delivery subWork is blocked on
    delId,        \* the id subWork is about to Delete
    visited,      \* teardown: ids the Range has visited
    rangeMust,    \* teardown: the registry as it was when the Range began
    call,         \* the Subscribe calls: pc and the id each took
    unsub,        \* whether Unsubscribe was called for a call's sink
    closePc,      \* where the Close call is
    overlap,      \* whether the callers' Subscribe calls may overlap in time
    hs,           \* Client.SubscriptionClient: where it is, what it read and returned
    \* ---- observations ----
    closeCount,   \* how often each sink was closed
    routed,       \* per id, the data and error frames read while it was registered
    received,     \* per sink, what its consumer received
    nFrames,      \* data, error and complete frames read so far
    lastRead      \* what the latest read of subWork returned

subVars == <<subIdGen, subs, subWait, connClosed, wrote, wpc, panicking,
             procDead, pending, delId, visited, rangeMust, call, unsub, closePc,
             overlap, hs, closeCount, routed, received, nFrames, lastRead>>

vars == <<runVars, subVars>>

\* classes of an exchange's outcome
Classes == {"RS", "TO", "NE", "CLEAN", "AR", "AN", "UD"}

NoResult == [kind |-> "none", tries |-> 0, status |-> 0, errs |-> <<>>, data |-> "nil"]

(***************************************************************************)
(* Pure functions of the retry path.                                       *)
(***************************************************************************)
\* RetryConfig.increaseInterval, on (Policy, Interval, MaxInterval)
increaseInterval(policy, interval, maxInterval) ==
    IF policy = ExponentialBackoff /\ interval < maxInterval
    THEN Min(interval * 2, maxInterval)
    ELSE interval

isErrRetryable_AnyNetError(err) == err # "nil"

\* isErrRetryable: a net.Error whose Timeout() is true; err is "nil",
\* "timeout" or "neterr" (a net.Error that is no timeout)
isErrRetryable(err) == err = "timeout"

shouldRetryStatus_DefaultOnly(config, status) ==
    (status >= 500 /\ status <= 599) \/ status = StatusTooManyRequests

\* RetryConfig.shouldRetry(status)
shouldRetryStatus(config, status) ==
    IF Cardinality(config.RetryStatus) > 0
    THEN status \in config.RetryStatus
    ELSE (status >= 500 /\ status <= 599) \/ status = StatusTooManyRequests

shouldRetry_NoInternal(errList) ==
    \E i \in 1..Len(errList) :
        errList[i].Name \in {errCapacityExceeded, errServiceUnavailable,
                             errServiceFailure}

\* shouldRetry(errList) of error.go
shouldRetry(errList) ==
    \E i \in 1..Len(errList) :
        errList[i].Name \in {errCapacityExceeded, errServiceUnavailable,
                             errServiceFailure, errInternal}

getAggrErr_FirstOnly(errList) ==
    [i \in 1..Min(1, Len(errList)) |-> <<i - 1, errList[i].Message, errList[i].Data>>]

\* getAggrErr: "graphql: " then, per error in order, "error <index>: message
\* (<message>), data (<data>). "; a text is kept as the list of its triples
getAggrErr(errList) ==
    [i \in 1..Len(errList) |-> <<i - 1, errList[i].Message, errList[i].Data>>]

sendTriesLeft_OffByOne(tries, maxTries) == tries + 1 < maxTries

\* the loop conditions `tryCount < retryConfig.MaxTries`
sendTriesLeft(tries, maxTries) == tries < maxTries

gqlTriesLeft(tries, maxTries) == tries < maxTries

\* the class of a decoded response body
EnvClass(env) ==
    IF ~env.decodable THEN "UD"
    ELSE IF ~env.hasErrors \/ Len(env.errors) = 0 THEN "CLEAN"
    ELSE IF \E i \in 1..Len(env.errors) :
               env.errors[i].Name \in {errCapacityExceeded, errServiceUnavailable,
                                       errServiceFailure, errInternal}
         THEN "AR"
         ELSE "AN"

Bump(f, c) == [f EXCEPT ![c] = @ + 1]

\* the bytes the request body reader can still produce
Avail == IF sendBody.viaTee THEN execBody ELSE sendBody.data

\* the transport reads n bytes of req.Body: through sendRequest's tee, and on
\* the first exchange of a transport call through executeRequest's tee too
ReadBody(n) ==
    /\ sendBuf' = sendBuf \o Take(Avail, n)
    /\ IF sendBody.viaTee
       THEN /\ execBody' = Drop(execBody, n)
            /\ execBuf' = execBuf \o Take(execBody, n)
            /\ UNCHANGED sendBody
       ELSE /\ sendBody' = [viaTee |-> FALSE, data |-> Drop(sendBody.data, n)]
            /\ UNCHANGED <<execBody, execBuf>>

Finish_NoReturn(r) ==
    /\ pc' = pc
    /\ result' = r

\* return: Run ends with the outcome r
Finish(r) ==
    /\ pc' = "done"
    /\ result' = r

ClientConfigAfter_Shared(config, interval) == [config EXCEPT !.Interval = interval]

\* c.retryConfig after increaseInterval raised a wait's interval to interval:
\* executeRequest works on copies (gqlRetryConfig := c.retryConfig,
\* retryConfig := c.retryConfig), the increase stays in the copy
ClientConfigAfter(config, interval) == config

(***************************************************************************)
(* One call to Run on a client built with some retry configuration.        *)
(***************************************************************************)
RunInit0 ==
    /\ cfg \in {NewClient(config) : config \in RetryConfigs}
    /\ pc = "run"
    /\ ctxErr \in {"none", "canceled", "deadline"}
    /\ gqlTry = 0
    /\ gqlInterval = 0
    /\ tryCount = 0
    /\ rcInterval = 0
    /\ statusCode = 0
    /\ resp = 0
    /\ grErrors = <<>>
    /\ grData = "nil"
    /\ execBody = <<>>
    /\ execBuf = <<>>
    /\ sendBody = [viaTee |-> TRUE, data |-> <<>>]
    /\ sendBuf = <<>>
    /\ result = NoResult
    /\ seen = 0
    /\ attempts = 0
    /\ cnt = [c \in Classes |-> 0]
    /\ last = "none"

\* the caller's context is cancelled or its deadline passes
Cancel ==
    /\ pc # "done"
    /\ ctxErr = "none"
    /\ ctxErr' \in {"canceled", "deadline"}
    /\ UNCHANGED <<cfg, pc, gqlTry, gqlInterval, tryCount, rcInterval, statusCode,
                   resp, grErrors, grData, execBody, execBuf, sendBody, sendBuf,
                   result, attempts, cnt, last>>
    /\ UNCHANGED <<subVars, seen>>

\* Run: the context check, the encoding of the body, the start of
\* executeRequest (gqlRetryConfig := c.retryConfig; body := r.Body)
RunStart ==
    /\ pc = "run"
    /\ IF ctxErr # "none"
       THEN /\ Finish([NoResult EXCEPT !.kind = "ctx"])
            /\ UNCHANGED <<gqlInterval, execBody>>
       ELSE /\ pc' = "exec_loop"
            /\ gqlInterval' = cfg.Interval
            /\ execBody' = BodyFull
            /\ UNCHANGED result
    /\ UNCHANGED <<cfg, ctxErr, gqlTry, tryCount, rcInterval, statusCode, resp,
                   grErrors, grData, execBuf, sendBody, sendBuf, attempts, cnt,
                   last>>
    /\ UNCHANGED <<subVars, seen>>

\* executeRequest: the head of the loop, up to the call of sendRequest and
\* sendRequest's first lines
ExecLoop ==
    /\ pc = "exec_loop"
    /\ IF gqlTriesLeft(gqlTry, cfg.MaxTries)
       THEN /\ execBuf' = <<>>
            /\ rcInterval' = cfg.Interval
            /\ sendBody' = [viaTee |-> TRUE, data |-> <<>>]
            /\ tryCount' = 0
            /\ statusCode' = 0
            /\ seen' = 0
            /\ pc' = IF cfg.Policy = NoPolicy THEN "do_plain" ELSE "send_loop"
            /\ UNCHANGED result
       ELSE /\ Finish([NoResult EXCEPT !.kind = "gql_exhausted", !.tries = gqlTry,
                                       !.errs = getAggrErr(grErrors)])
            /\ UNCHANGED <<execBuf, rcInterval, sendBody, tryCount, statusCode,
                           seen>>
    /\ UNCHANGED <<cfg, ctxErr, gqlTry, gqlInterval, resp, grErrors, grData,
                   execBody, sendBuf, attempts, cnt, last>>
    /\ UNCHANGED subVars

\* sendRequest without a policy: one exchange
DoPlain ==
    /\ pc = "do_plain"
    /\ \/ /\ ctxErr # "none"
          /\ Finish([NoResult EXCEPT !.kind = "send_error"])
          /\ UNCHANGED <<resp, attempts, cnt, last, sendBuf, execBody, execBuf,
                         sendBody>>
       \/ /\ ctxErr = "none"
          /\ attempts' = attempts + 1
          /\ \E n \in 0..Len(Avail) : ReadBody(n)
          /\ \/ \E err \in {"timeout", "neterr"} :
                  /\ Finish([NoResult EXCEPT !.kind = "send_error"])
                  /\ cnt' = Bump(cnt, IF err = "timeout" THEN "TO" ELSE "NE")
                  /\ last' = IF err = "timeout" THEN "TO" ELSE "NE"
                  /\ UNCHANGED resp
             \/ \E st \in Statuses :
                  /\ resp' = st
                  /\ pc' = "decode"
                  /\ UNCHANGED <<result, cnt, last>>
    /\ UNCHANGED <<cfg, ctxErr, gqlTry, gqlInterval, tryCount, rcInterval,
                   statusCode, grErrors, grData>>
    /\ UNCHANGED <<subVars, seen>>

ExhaustedErr_NoStatus(tries, status) ==
    [NoResult EXCEPT !.kind = "http_exhausted", !.tries = tries]

\* sendRequest's last line: "Client has retried %d times ... Status code: %d"
ExhaustedErr(tries, status) ==
    [NoResult EXCEPT !.kind = "http_exhausted", !.tries = tries, !.status = status]

\* sendRequest with a policy: the head of the loop and the Canceled check
SendLoop ==
    /\ pc = "send_loop"
    /\ IF sendTriesLeft(tryCount, cfg.MaxTries)
       THEN /\ sendBuf' = <<>>
            /\ IF ctxErr = "canceled"
               THEN Finish([NoResult EXCEPT !.kind = "canceled"])
               ELSE pc' = "do" /\ UNCHANGED result
       ELSE /\ Finish(ExhaustedErr(tryCount, statusCode))
            /\ UNCHANGED sendBuf
    /\ UNCHANGED <<cfg, ctxErr, gqlTry, gqlInterval, tryCount, rcInterval,
                   statusCode, resp, grErrors, grData, execBody, execBuf, sendBody,
                   attempts, cnt, last>>
    /\ UNCHANGED <<subVars, seen>>

\* after a retryable outcome: body = buf, the observer, then the wait
ToSendWait ==
    /\ sendBody' = [viaTee |-> FALSE, data |-> sendBuf']
    /\ pc' = "send_wait"
    /\ UNCHANGED result

\* sendRequest: c.httpClient.Do(req) and the classification of its outcome.
\* A context that is already done makes Do fail without an exchange.
Do ==
    /\ pc = "do"
    /\ \/ /\ ctxErr # "none"
          /\ UNCHANGED <<attempts, cnt, last, sendBuf, execBody, execBuf,
                         statusCode, resp, seen>>
          /\ IF isErrRetryable(IF ctxErr = "deadline" THEN "timeout" ELSE "neterr")
             THEN ToSendWait
             ELSE Finish([NoResult EXCEPT !.kind = "send_error"])
                  /\ UNCHANGED sendBody
       \/ /\ ctxErr = "none"
          /\ attempts' = attempts + 1
          /\ \E n \in 0..Len(Avail) :
               /\ sendBuf' = sendBuf \o Take(Avail, n)
               /\ IF sendBody.viaTee
                  THEN /\ execBody' = Drop(execBody, n)
                       /\ execBuf' = execBuf \o Take(execBody, n)
                  ELSE UNCHANGED <<execBody, execBuf>>
               /\ \/ \E err \in {"timeout", "neterr"} :
                       /\ cnt' = Bump(cnt, IF err = "timeout" THEN "TO" ELSE "NE")
                       /\ last' = IF err = "timeout" THEN "TO" ELSE "NE"
                       /\ UNCHANGED <<statusCode, resp, seen>>
                       /\ IF isErrRetryable(err)
                          THEN ToSendWait
                          ELSE /\ Finish([NoResult EXCEPT !.kind = "send_error"])
                               /\ sendBody' =
                                    IF sendBody.viaTee THEN sendBody
                                    ELSE [viaTee |-> FALSE,
                                          data |-> Drop(sendBody.data, n)]
                  \/ \E st \in Statuses :
                       /\ statusCode' = st
                       /\ seen' = st
                       /\ IF shouldRetryStatus(cfg, st)
                          THEN /\ ToSendWait
                               /\ cnt' = Bump(cnt, "RS")
                               /\ last' = "RS"
                               /\ UNCHANGED resp
                          ELSE /\ resp' = st
                               /\ pc' = "decode"
                               /\ sendBody' =
                                    IF sendBody.viaTee THEN sendBody
                                    ELSE [viaTee |-> FALSE,
                                          data |-> Drop(sendBody.data, n)]
                               /\ UNCHANGED <<result, cnt, last>>
    /\ UNCHANGED <<cfg, ctxErr, gqlTry, gqlInterval, tryCount, rcInterval,
                   grErrors, grData>>
    /\ UNCHANGED subVars

\* sendRequest: select { <-ctx.Done() ; <-timer.C } and the loop's tryCount++
SendWait ==
    /\ pc = "send_wait"
    /\ \/ /\ ctxErr # "none"
          /\ Finish([NoResult EXCEPT !.kind = "ctx_unexpected"])
          /\ UNCHANGED <<cfg, rcInterval, tryCount>>
       \/ /\ rcInterval' = increaseInterval(cfg.Policy, rcInterval, cfg.MaxInterval)
          /\ cfg' = ClientConfigAfter(cfg, rcInterval')
          /\ tryCount' = tryCount + 1
          /\ pc' = "send_loop"
          /\ UNCHANGED result
    /\ UNCHANGED <<ctxErr, gqlTry, gqlInterval, statusCode, resp, grErrors,
                   grData, execBody, execBuf, sendBody, sendBuf, attempts, cnt,
                   last>>
    /\ UNCHANGED <<subVars, seen>>

\* executeRequest: getGraphQLResp, then the decision on gr.Errors.  Decoding
\* into gr leaves a field the body does not mention as it was.
Decode ==
    /\ pc = "decode"
    /\ \E env \in Envelopes :
         /\ cnt' = Bump(cnt, EnvClass(env))
         /\ last' = EnvClass(env)
         /\ IF ~env.decodable
            THEN /\ Finish([NoResult EXCEPT !.kind = "decode_error", !.status = resp])
                 /\ UNCHANGED <<grErrors, grData, execBody>>
            ELSE /\ grErrors' = IF env.hasErrors THEN env.errors ELSE grErrors
                 /\ grData' = env.data
                 /\ IF Len(grErrors') > 0
                    THEN IF rcInterval <= cfg.Interval /\ shouldRetry(grErrors')
                         THEN /\ execBody' = execBuf
                              /\ pc' = "exec_wait"
                              /\ UNCHANGED result
                         ELSE /\ Finish([NoResult EXCEPT
                                           !.kind = "gql_errors",
                                           !.errs = getAggrErr(grErrors')])
                              /\ UNCHANGED execBody
                    ELSE /\ Finish([NoResult EXCEPT !.kind = "ok", !.data = grData'])
                         /\ UNCHANGED execBody
    /\ UNCHANGED <<cfg, ctxErr, gqlTry, gqlInterval, tryCount, rcInterval,
                   statusCode, resp, execBuf, sendBody, sendBuf, attempts>>
    /\ UNCHANGED <<subVars, seen>>

\* executeRequest: select { <-ctx.Done() ; <-timer.C } and the loop's tryCount++
ExecWait ==
    /\ pc = "exec_wait"
    /\ \/ /\ ctxErr # "none"
          /\ Finish([NoResult EXCEPT !.kind = "ctx"])
          /\ UNCHANGED <<cfg, gqlInterval, gqlTry>>
       \/ /\ gqlInterval' = increaseInterval(cfg.Policy, gqlInterval, cfg.MaxInterval)
          /\ cfg' = ClientConfigAfter(cfg, gqlInterval')
          /\ gqlTry' = gqlTry + 1
          /\ pc' = "exec_loop"
          /\ UNCHANGED result
    /\ UNCHANGED <<ctxErr, tryCount, rcInterval, statusCode, resp, grErrors,
                   grData, execBody, execBuf, sendBody, sendBuf, attempts, cnt,
                   last>>
    /\ UNCHANGED <<subVars, seen>>

RunNext0 ==
    \/ Cancel
    \/ RunStart
    \/ ExecLoop
    \/ DoPlain
    \/ SendLoop
    \/ Do
    \/ SendWait
    \/ Decode
    \/ ExecWait

(***************************************************************************)
(* The subscription multiplexer (part_001).                                *)
(***************************************************************************)
\* each Subscribe call makes one sink; the sink is named after the call
Callers == 1..MaxSubscribers

gql_start == "start"
gql_stop == "stop"
gql_connection_ack == "connection_ack"
gql_connection_error == "connection_error"
gql_connection_terminate == "connection_terminate"
gql_data == "data"
gql_error == "error"
gql_complete == "GQL_COMPLETE"
gql_connection_keep_alive == "ka"

RECURSIVE Itoa(_)
\* strconv.Itoa for n >= 0: the decimal digits of n
Itoa(n) == IF n < 10 THEN <<n>> ELSE Itoa(n \div 10) \o <<n % 10>>

\* a frame without an id field
NoId == <<>>

Payloads == {"p1", "p2"}

\* the frames the server sends after the handshake
FrameTypes == {gql_data, gql_error, gql_complete, "complete", gql_connection_keep_alive}
FrameIds == {Itoa(k) : k \in 0..(MaxSubscribers - 1)} \cup {NoId}
Frames == [type : FrameTypes, id : FrameIds, payload : Payloads]

NoPending == [sink |-> 0, field |-> "none", payload |-> "none"]

\* the payload of a handshake frame: its JSON text as tokens, "ws" standing
\* for insignificant white space between them
HsPayloads == { <<"{", "reason", ":", "bad token", "}">>,
                <<"{", "ws", "reason", ":", "ws", "bad token", "}">> }

\* the first frame the server may send: a payload pointer is nil when the
\* frame has no payload field
HsFrames ==
    [type : {gql_connection_ack, gql_connection_error, gql_connection_keep_alive,
             gql_data},
     hasPayload : BOOLEAN, payload : HsPayloads]

NoFrame == [type |-> "none", hasPayload |-> FALSE, payload |-> <<>>]

\* json.Marshal of a json.RawMessage: the message itself, compacted
Marshal(raw) == SelectSeq(raw, LAMBDA t : t # "ws")

\* the state of a constructor call that has not been made yet
HsNew == [pc |-> "new", err |-> <<>>, dial |-> "none", read |-> "none",
          first |-> NoFrame]

\* a SubscriptionClient value the constructor did not make: no connection
HsZero == [pc |-> "zero", err |-> <<>>, dial |-> "none", read |-> "none",
           first |-> NoFrame]

\* the state of a constructor call that returned a client
HsReturned == [pc |-> "returned", err |-> <<>>, dial |-> "ok", read |-> "ok",
               first |-> [type |-> gql_connection_ack, hasPayload |-> FALSE,
                          payload |-> <<>>]]

SubInit0 ==
    /\ subIdGen = 0
    /\ subs = <<>>
    /\ subWait = 0
    /\ connClosed = FALSE
    /\ wrote = <<>>
    /\ wpc = "spawned"
    /\ panicking = FALSE
    /\ procDead = "no"
    /\ pending = NoPending
    /\ delId = NoId
    /\ visited = {}
    /\ rangeMust = <<>>
    /\ call = [c \in Callers |-> [pc |-> "idle", id |-> NoId, n |-> 0, k |-> 0]]
    /\ unsub = [c \in Callers |-> "no"]
    /\ closePc = "idle"
    /\ hs = HsReturned
    /\ closeCount = [c \in Callers |-> 0]
    /\ routed = [id \in FrameIds |-> <<>>]
    /\ received = [c \in Callers |-> <<>>]
    /\ nFrames = 0
    /\ lastRead = "none"

Registered(id) == id \in DOMAIN subs

\* sync.Map.Store
Store(m, id, sink) == [k \in DOMAIN m \cup {id} |-> IF k = id THEN sink ELSE m[k]]

Delete_Nothing(m, id) == m

\* sync.Map.Delete
Delete(m, id) == [k \in DOMAIN m \ {id} |-> m[k]]

\* the deferred calls of subWork begin: the Range over c.subs
BeginTeardown ==
    /\ wpc' = "teardown"
    /\ visited' = {}
    /\ rangeMust' = subs

\* go subClient.subWork(): c.subWait.Add(1) runs in the new goroutine
WorkerStart ==
    /\ procDead = "no"
    /\ wpc = "spawned"
    /\ subWait' = subWait + 1
    /\ wpc' = "read"
    /\ UNCHANGED <<subIdGen, subs, connClosed, wrote, panicking, procDead, pending,
                   delId, visited, rangeMust, call, unsub, closePc, closeCount,
                   routed, received, nFrames, lastRead>>
    /\ UNCHANGED <<runVars, overlap, hs>>

ReadyToRead_WhileSending == wpc \in {"read", "send"}

\* the loop of subWork is at c.subWebsocket.ReadJSON: the send of the frame
\* before, on the unbuffered sink, has returned
ReadyToRead == wpc = "read"

\* ReadJSON fails with io.EOF or io.ErrUnexpectedEOF: return, the defers run
WorkerReadEOF ==
    /\ procDead = "no"
    /\ ReadyToRead
    /\ ~connClosed
    /\ lastRead' = "eof"
    /\ BeginTeardown
    /\ UNCHANGED <<subIdGen, subs, subWait, connClosed, wrote, panicking, procDead,
                   pending, delId, call, unsub, closePc, closeCount, routed,
                   received, nFrames>>
    /\ UNCHANGED <<runVars, overlap, hs>>

\* ReadJSON fails with any other error (always so once the connection was
\* closed on this side): log.Fatalf ends the process, no defer runs
WorkerReadError ==
    /\ procDead = "no"
    /\ ReadyToRead
    /\ lastRead' = "error"
    /\ procDead' = "fatal"
    /\ UNCHANGED <<subIdGen, subs, subWait, connClosed, wrote, wpc, panicking,
                   pending, delId, visited, rangeMust, call, unsub, closePc,
                   closeCount, routed, received, nFrames>>
    /\ UNCHANGED <<runVars, overlap, hs>>

\* the payload field a frame type is delivered in
FieldOf_Swapped(type) == "Data"

FieldOf(type) == IF type = gql_error THEN "Error" ELSE "Data"

\* ch, _ := c.subs.Load(id); ch.(Subscription): a nil id pointer, an id that is
\* not registered (a nil interface) panic
LoadPanics(msg) == msg.id = NoId \/ ~Registered(msg.id)

\* ReadJSON returns a frame: the switch on msg.Type
WorkerReadFrame ==
    /\ procDead = "no"
    /\ ReadyToRead
    /\ ~connClosed
    /\ nFrames < MaxFrames
    /\ \E msg \in Frames :
         /\ lastRead' = IF msg.type \in {gql_data, gql_error, gql_complete}
                        THEN IF msg.id = NoId THEN "no_id"
                             ELSE IF ~Registered(msg.id) THEN "unknown_id"
                             ELSE "frame"
                        ELSE IF msg.type = "complete" /\ Registered(msg.id)
                             THEN "protocol_complete"
                             ELSE "frame"
         /\ nFrames' = nFrames + 1
         /\ IF msg.type \in {gql_data, gql_error}
            THEN IF LoadPanics(msg) \/ closeCount[subs[msg.id]] > 0
                 THEN /\ panicking' = TRUE
                      /\ BeginTeardown
                      /\ UNCHANGED <<pending, routed, closeCount, delId>>
                 ELSE /\ pending' = [sink |-> subs[msg.id], field |-> FieldOf(msg.type),
                                     payload |-> msg.payload]
                      /\ routed' = [routed EXCEPT ![msg.id] =
                                       Append(@, <<msg.type, msg.payload>>)]
                      /\ wpc' = "send"
                      /\ UNCHANGED <<panicking, visited, rangeMust, closeCount, delId>>
            ELSE IF msg.type = gql_complete
            THEN IF LoadPanics(msg)
                 THEN /\ panicking' = TRUE
                      /\ BeginTeardown
                      /\ UNCHANGED <<pending, routed, closeCount, delId>>
                 ELSE /\ closeCount' = [closeCount EXCEPT ![subs[msg.id]] = @ + 1]
                      /\ UNCHANGED <<pending, routed>>
                      /\ IF closeCount[subs[msg.id]] > 0
                         THEN /\ panicking' = TRUE
                              /\ BeginTeardown
                              /\ UNCHANGED delId
                         ELSE /\ delId' = msg.id
                              /\ wpc' = "delete"
                              /\ UNCHANGED <<panicking, visited, rangeMust>>
            ELSE UNCHANGED <<wpc, panicking, visited, rangeMust, pending, routed,
                             closeCount, delId>>
    /\ UNCHANGED <<subIdGen, subs, subWait, connClosed, wrote, procDead, call, unsub,
                   closePc, received>>
    /\ UNCHANGED <<runVars, overlap, hs>>

\* the consumer of a sink receives what subWork is sending: the unbuffered
\* channel hands it over and subWork goes on to the next read
Receive ==
    /\ procDead = "no"
    /\ wpc = "send"
    /\ received' = [received EXCEPT ![pending.sink] =
                       Append(@, <<pending.field, pending.payload>>)]
    /\ pending' = NoPending
    /\ wpc' = "read"
    /\ UNCHANGED <<subIdGen, subs, subWait, connClosed, wrote, panicking, procDead,
                   delId, visited, rangeMust, call, unsub, closePc, closeCount,
                   routed, nFrames, lastRead>>
    /\ UNCHANGED <<runVars, overlap, hs>>

CompleteKeeps(m, id) == m

\* what the complete branch leaves in the registry: c.subs.Delete(id)
CompleteRemoves(m, id) == Delete(m, id)

\* the complete branch, after close(ch): c.subs.Delete(id)
WorkerDelete ==
    /\ procDead = "no"
    /\ wpc = "delete"
    /\ subs' = CompleteRemoves(subs, delId)
    /\ delId' = NoId
    /\ wpc' = "read"
    /\ UNCHANGED <<subIdGen, subWait, connClosed, wrote, panicking, procDead,
                   pending, visited, rangeMust, call, unsub, closePc, closeCount,
                   routed, received, nFrames, lastRead>>
    /\ UNCHANGED <<runVars, overlap, hs>>

\* the deferred Range: close(sub) for one more registered id.  Closing a
\* closed channel panics.
TeardownStep ==
    /\ procDead = "no"
    /\ wpc = "teardown"
    /\ \E id \in DOMAIN subs \ visited :
         /\ visited' = visited \cup {id}
         /\ closeCount' = [closeCount EXCEPT ![subs[id]] = @ + 1]
         /\ procDead' = IF closeCount[subs[id]] > 0 THEN "panic" ELSE "no"
    /\ UNCHANGED <<subIdGen, subs, subWait, connClosed, wrote, wpc, panicking,
                   pending, delId, rangeMust, call, unsub, closePc, routed,
                   received, nFrames, lastRead>>
    /\ UNCHANGED <<runVars, overlap, hs>>

\* the Range ends (ids stored while it ran may have been missed), then the
\* deferred c.subWait.Done(); an unwinding panic then ends the process
TeardownDone ==
    /\ procDead = "no"
    /\ wpc = "teardown"
    /\ DOMAIN rangeMust \subseteq visited
    /\ subWait' = subWait - 1
    /\ wpc' = "exited"
    /\ procDead' = IF panicking THEN "panic" ELSE "no"
    /\ UNCHANGED <<subIdGen, subs, connClosed, wrote, panicking, pending, delId,
                   visited, rangeMust, call, unsub, closePc, closeCount, routed,
                   received, nFrames, lastRead>>
    /\ UNCHANGED <<runVars, overlap, hs>>

\* how many Subscribe calls have begun so far
CallsBegun == Cardinality({d \in Callers : call[d].pc # "idle"})

\* Subscribe: encoding the request fails and nothing else happens, or
\* id := strconv.Itoa(c.subIdGen)
SubscribeId(c) ==
    /\ procDead = "no"
    /\ hs.pc = "returned"
    /\ call[c].pc = "idle"
    /\ overlap \/ \A d \in Callers : call[d].pc \notin {"inc", "store", "write"}
    /\ \/ call' = [call EXCEPT ![c].pc = "encode_failed", ![c].k = CallsBegun]
       \/ call' = [call EXCEPT ![c] = [pc |-> "inc", id |-> Itoa(subIdGen),
                                       n |-> subIdGen, k |-> CallsBegun]]
    /\ UNCHANGED <<subIdGen, subs, subWait, connClosed, wrote, wpc, panicking,
                   procDead, pending, delId, visited, rangeMust, unsub, closePc,
                   closeCount, routed, received, nFrames, lastRead>>
    /\ UNCHANGED <<runVars, overlap, hs>>

NextId_Stuck(gen) == gen

\* the value c.subIdGen++ writes back for the value it read
NextId(gen) == gen + 1

\* Subscribe: c.subIdGen++, an unsynchronised read-modify-write: it writes
\* back the value read for the id, or a value read again, plus one
SubscribeInc(c) ==
    /\ procDead = "no"
    /\ call[c].pc = "inc"
    /\ subIdGen' \in {NextId(call[c].n), NextId(subIdGen)}
    /\ call' = [call EXCEPT ![c].pc = "store"]
    /\ UNCHANGED <<subs, subWait, connClosed, wrote, wpc, panicking, procDead,
                   pending, delId, visited, rangeMust, unsub, closePc, closeCount,
                   routed, received, nFrames, lastRead>>
    /\ UNCHANGED <<runVars, overlap, hs>>

\* Subscribe: subChan := make(Subscription); c.subs.Store(id, subChan)
SubscribeStore(c) ==
    /\ procDead = "no"
    /\ call[c].pc = "store"
    /\ subs' = Store(subs, call[c].id, c)
    /\ call' = [call EXCEPT ![c].pc = "write"]
    /\ UNCHANGED <<subIdGen, subWait, connClosed, wrote, wpc, panicking, procDead,
                   pending, delId, visited, rangeMust, unsub, closePc, closeCount,
                   routed, received, nFrames, lastRead>>
    /\ UNCHANGED <<runVars, overlap, hs>>

\* Subscribe: the call of WriteJSON(start frame) begins; nothing guards it
SubscribeWriteBegin(c) ==
    /\ procDead = "no"
    /\ call[c].pc = "write"
    /\ call' = [call EXCEPT ![c].pc = "writing"]
    /\ UNCHANGED <<subIdGen, subs, subWait, connClosed, wrote, wpc, panicking,
                   procDead, pending, delId, visited, rangeMust, unsub, closePc,
                   closeCount, routed, received, nFrames, lastRead>>
    /\ UNCHANGED <<runVars, overlap, hs>>

\* Subscribe: WriteJSON(start frame); on an error nil is returned and the
\* sink stays registered
SubscribeWrite(c) ==
    /\ procDead = "no"
    /\ call[c].pc \in {"write", "writing"}
    /\ \/ /\ ~connClosed
          /\ wrote' = Append(wrote, [type |-> gql_start, id |-> call[c].id])
          /\ call' = [call EXCEPT ![c].pc = "done"]
       \/ /\ call' = [call EXCEPT ![c].pc = "write_failed"]
          /\ UNCHANGED wrote
    /\ UNCHANGED <<subIdGen, subs, subWait, connClosed, wpc, panicking,
                   procDead, pending, delId, visited, rangeMust, unsub, closePc,
                   closeCount, routed, received, nFrames, lastRead>>
    /\ UNCHANGED <<runVars, overlap, hs>>

\* Unsubscribe: the Range has found the sink and the call of
\* WriteJSON(stop frame) begins; nothing guards it
UnsubscribeWriteBegin(c) ==
    /\ procDead = "no"
    /\ hs.pc = "returned"
    /\ call[c].pc = "done"
    /\ unsub[c] = "no"
    /\ \E id \in DOMAIN subs : subs[id] = c
    /\ unsub' = [unsub EXCEPT ![c] = "writing"]
    /\ UNCHANGED <<subIdGen, subs, subWait, connClosed, wrote, wpc, panicking,
                   procDead, pending, delId, visited, rangeMust, call, closePc,
                   closeCount, routed, received, nFrames, lastRead>>
    /\ UNCHANGED <<runVars, overlap, hs>>

FindSink_Any(m, sink) == DOMAIN m

\* the Range of Unsubscribe: the keys whose value is the sink
FindSink(m, sink) == {id \in DOMAIN m : m[id] = sink}

\* Unsubscribe(sub): Range for the id whose value is sub and write a stop
\* frame for it (the write's error is dropped); nothing when none matches
Unsubscribe(c) ==
    /\ procDead = "no"
    /\ hs.pc = "returned"
    /\ call[c].pc = "done"
    /\ unsub[c] \in {"no", "writing"}
    /\ IF unsub[c] = "writing" \/ FindSink(subs, c) # {}
       THEN \E id \in (IF unsub[c] = "writing" THEN {call[c].id}
                                               ELSE FindSink(subs, c)) :
              \/ /\ ~connClosed
                 /\ wrote' = Append(wrote, [type |-> gql_stop, id |-> id])
                 /\ unsub' = [unsub EXCEPT ![c] = "written"]
              \/ /\ UNCHANGED wrote
                 /\ unsub' = [unsub EXCEPT ![c] = "write_failed"]
       ELSE /\ UNCHANGED wrote
            /\ unsub' = [unsub EXCEPT ![c] = "no_match"]
    /\ UNCHANGED <<subIdGen, subs, subWait, connClosed, wpc, panicking, procDead,
                   pending, delId, visited, rangeMust, call, closePc, closeCount,
                   routed, received, nFrames, lastRead>>
    /\ UNCHANGED <<runVars, overlap, hs>>

\* Close: the call of WriteJSON(terminate frame) begins; nothing guards it
CloseWriteBegin ==
    /\ procDead = "no"
    /\ hs.pc = "returned"
    /\ closePc = "idle"
    /\ closePc' = "writing"
    /\ UNCHANGED <<subIdGen, subs, subWait, connClosed, wrote, wpc, panicking,
                   procDead, pending, delId, visited, rangeMust, call, unsub,
                   closeCount, routed, received, nFrames, lastRead>>
    /\ UNCHANGED <<runVars, overlap, hs>>

HasConnection_Always(p) == TRUE

\* c.subWebsocket != nil: the constructor sets the field in the client it
\* returns; a SubscriptionClient value made without it has no connection
HasConnection(p) == p = "returned"

\* Close: return nil if there is no connection; else WriteJSON(terminate
\* frame), whose error is returned at once
CloseWrite ==
    /\ procDead = "no"
    /\ hs.pc \in {"returned", "zero"}
    /\ closePc \in {"idle", "writing"}
    /\ IF ~HasConnection(hs.pc)
       THEN /\ closePc' = "returned_nil"
            /\ UNCHANGED wrote
       ELSE \/ /\ wrote' = Append(wrote, [type |-> gql_connection_terminate,
                                          id |-> NoId])
               /\ closePc' = "wait"
            \/ /\ closePc' = "write_failed"
               /\ UNCHANGED wrote
    /\ UNCHANGED <<subIdGen, subs, subWait, connClosed, wpc, panicking, procDead,
                   pending, delId, visited, rangeMust, call, unsub, closeCount,
                   routed, received, nFrames, lastRead>>
    /\ UNCHANGED <<runVars, overlap, hs>>

\* sync.WaitGroup.Wait returns when the counter is zero
WaitReturns(counter) == counter = 0

\* Close: c.subWait.Wait() returns, then c.subWebsocket.Close()
CloseWait ==
    /\ procDead = "no"
    /\ closePc = "wait"
    /\ WaitReturns(subWait)
    /\ connClosed' = TRUE
    /\ closePc' = "done"
    /\ UNCHANGED <<subIdGen, subs, subWait, wrote, wpc, panicking, procDead,
                   pending, delId, visited, rangeMust, call, unsub, closeCount,
                   routed, received, nFrames, lastRead>>
    /\ UNCHANGED <<runVars, overlap, hs>>

Acknowledged_NotError(type) == type # gql_connection_error

\* the test `msg.Type != gql_connection_ack` of the constructor, negated
Acknowledged(type) == type = gql_connection_ack

\* Client.SubscriptionClient: dial, read the first frame, and either start
\* the dispatch worker and return the client or return an error.  A
\* connection_error frame without a payload makes *msg.Payload panic.
SubscriptionClient ==
    /\ procDead = "no"
    /\ hs.pc = "new"
    /\ \E d \in {"ok", "error"}, r \in {"ok", "error"}, msg \in HsFrames :
         IF d = "error"
         THEN /\ hs' = [pc |-> "failed", err |-> <<"dial error">>, dial |-> d,
                        read |-> "none", first |-> NoFrame]
              /\ UNCHANGED <<wpc, connClosed, procDead>>
         ELSE IF r = "error"
         THEN /\ hs' = [pc |-> "failed", err |-> <<"read error">>, dial |-> d,
                        read |-> r, first |-> NoFrame]
              /\ UNCHANGED <<wpc, connClosed, procDead>>
         ELSE IF Acknowledged(msg.type)
         THEN /\ hs' = [pc |-> "returned", err |-> <<>>, dial |-> d, read |-> r,
                        first |-> msg]
              /\ wpc' = "spawned"
              /\ UNCHANGED <<connClosed, procDead>>
         ELSE /\ connClosed' = TRUE
              /\ UNCHANGED wpc
              /\ IF msg.type = gql_connection_error
                 THEN IF msg.hasPayload
                      THEN /\ hs' = [pc |-> "failed", err |-> Marshal(msg.payload),
                                     dial |-> d, read |-> r, first |-> msg]
                           /\ UNCHANGED procDead
                      ELSE /\ hs' = [pc |-> "panicked", err |-> <<>>, dial |-> d,
                                     read |-> r, first |-> msg]
                           /\ procDead' = "panic"
                 ELSE /\ hs' = [pc |-> "failed",
                                err |-> <<"server-did-not-acknowledge">>,
                                dial |-> d, read |-> r, first |-> msg]
                      /\ UNCHANGED procDead
    /\ UNCHANGED <<subIdGen, subs, subWait, wrote, panicking, pending, delId,
                   visited, rangeMust, call, unsub, closePc, closeCount, routed,
                   received, nFrames, lastRead>>
    /\ UNCHANGED <<runVars, overlap>>

SubNext0 ==
    \/ WorkerStart
    \/ WorkerReadEOF
    \/ WorkerReadError
    \/ WorkerReadFrame
    \/ Receive
    \/ WorkerDelete
    \/ TeardownStep
    \/ TeardownDone
    \/ \E c \in Callers : SubscribeId(c)
    \/ \E c \in Callers : SubscribeInc(c)
    \/ \E c \in Callers : SubscribeStore(c)
    \/ \E c \in Callers : SubscribeWrite(c)
    \/ \E c \in Callers : Unsubscribe(c)
    \/ CloseWrite
    \/ CloseWait

(***************************************************************************)
(* The specifications.                                                     *)
(***************************************************************************)
\* the unary path at rest, for the behaviours of the multiplexer
RunParked ==
    /\ RunInit0
    /\ cfg = defaultNoRetryConfig
    /\ ctxErr = "none"

RunInit == RunInit0 /\ SubInit0 /\ overlap = FALSE
RunNext == RunNext0
RunSpec == RunInit /\ [][RunNext]_vars

\* the same, where every HTTP exchange returns, every timer fires and every
\* step of Run that can be taken is taken; the caller's context may stay
\* open for ever
RunProgress ==
    RunStart \/ ExecLoop \/ DoPlain \/ SendLoop \/ Do \/ SendWait \/ Decode \/ ExecWait
FairRunSpec == RunInit /\ [][RunNext]_vars /\ WF_vars(RunProgress)

\* callers on any number of threads
SubInit == SubInit0 /\ RunParked /\ overlap = TRUE
SubNext == SubNext0
SubSpec == SubInit /\ [][SubNext]_vars

\* callers whose Subscribe calls do not overlap one another
SeqSubInit == SubInit0 /\ RunParked /\ overlap = FALSE
SeqSubSpec == SeqSubInit /\ [][SubNext]_vars

\* the same, where the goroutine of subWork and the waiting Close are
\* scheduled and the server ends the stream; nothing makes a consumer
\* receive from its sink
WorkerProgress ==
    WorkerStart \/ WorkerReadEOF \/ WorkerDelete \/ TeardownStep \/ TeardownDone
        \/ CloseWait
FairSeqSubSpec == SeqSubInit /\ [][SubNext]_vars /\ WF_vars(WorkerProgress)

\* the callers' side with the calls of WriteJSON in two steps, entry and
\* return, while the server sends no frame
WriteInit == SubInit0 /\ RunParked /\ overlap = TRUE
WriteNext ==
    \/ WorkerStart
    \/ WorkerReadEOF
    \/ WorkerReadError
    \/ TeardownStep
    \/ TeardownDone
    \/ \E c \in Callers : SubscribeId(c)
    \/ \E c \in Callers : SubscribeInc(c)
    \/ \E c \in Callers : SubscribeStore(c)
    \/ \E c \in Callers : SubscribeWriteBegin(c)
    \/ \E c \in Callers : SubscribeWrite(c)
    \/ \E c \in Callers : UnsubscribeWriteBegin(c)
    \/ \E c \in Callers : Unsubscribe(c)
    \/ CloseWriteBegin
    \/ CloseWrite
    \/ CloseWait
WriteSpec == WriteInit /\ [][WriteNext]_vars

\* before Client.SubscriptionClient is called, or with a client value that
\* was made without it: no connection, no worker
ConnInit ==
    /\ RunParked
    /\ overlap = FALSE
    /\ hs \in {HsNew, HsZero}
    /\ wpc = "none"
    /\ subIdGen = 0
    /\ subs = <<>>
    /\ subWait = 0
    /\ connClosed = FALSE
    /\ wrote = <<>>
    /\ panicking = FALSE
    /\ procDead = "no"
    /\ pending = NoPending
    /\ delId = NoId
    /\ visited = {}
    /\ rangeMust = <<>>
    /\ call = [c \in Callers |-> [pc |-> "idle", id |-> NoId, n |-> 0, k |-> 0]]
    /\ unsub = [c \in Callers |-> "no"]
    /\ closePc = "idle"
    /\ closeCount = [c \in Callers |-> 0]
    /\ routed = [id \in FrameIds |-> <<>>]
    /\ received = [c \in Callers |-> <<>>]
    /\ nFrames = 0
    /\ lastRead = "none"

\* the constructor call and then the use of the client it returned
ConnNext == SubscriptionClient \/ SubNext0
ConnSpec == ConnInit /\ [][ConnNext]_vars

(***************************************************************************)
(* The claims.                                                             *)
(***************************************************************************)

\* C1: one call to Run issues at most MaxTries physical HTTP exchanges in
\* total, the HTTP-level and the application-level retries counted together.
C1_AtMostMaxTries == attempts <= cfg.MaxTries

\* C2: overlapping Subscribe calls are never given the same id, and a sink a
\* call has registered is not replaced in the registry by another call.
C2_NoCollision ==
    /\ \A c, d \in Callers :
         (c # d /\ call[c].id # NoId /\ call[d].id # NoId) => call[c].id # call[d].id
    /\ \A c \in Callers :
         (call[c].pc \in {"write", "done", "write_failed"} /\ Registered(call[c].id))
            => subs[call[c].id] = c

C4_CloseWaitsForWorker ==
    (closePc = "done" \/ connClosed) =>
        /\ wpc = "exited"
        /\ \E i \in 1..Len(wrote) : wrote[i].type = gql_connection_terminate

\* C5: after a read failure of any kind the dispatch loop closes the sinks
\* and exits; the process goes on.
C5_ReadFailureTearsDown ==
    lastRead \in {"eof", "error"} => (wpc \in {"teardown", "exited"} /\ procDead = "no")

\* C6: after a data, error or complete frame for an id that is not in the
\* registry, the dispatch loop is back at its read and nothing else happened.
C6_UnknownIdIgnored ==
    lastRead = "unknown_id" => (wpc = "read" /\ ~panicking /\ procDead = "no")

\* the payload field the consumer is to find a frame's payload in
ExpectedField(type) == IF type = gql_data THEN "Data" ELSE "Error"

Expected(id) == [i \in 1..Len(routed[id]) |->
                    <<ExpectedField(routed[id][i][1]), routed[id][i][2]>>]

C8_BodyReplayed == pc \in {"do", "do_plain"} => Avail = BodyFull

\* C9: under a retry policy, while only retryable statuses have come back and
\* attempts are left Run goes on; and when attempts 1..k-1 (k <= MaxTries)
\* came back with a retryable status and attempt k with a non-retryable
\* status and an envelope without errors, Run has ended after exactly those
\* k attempts with the decoded data and no error.
C9_RetryThenSuccess ==
    cfg.Policy # NoPolicy =>
        /\ (ctxErr = "none" /\ cnt["RS"] = attempts /\ attempts < cfg.MaxTries)
              => pc # "done"
        /\ (last = "CLEAN" /\ cnt["CLEAN"] = 1 /\ cnt["RS"] = attempts - 1
               /\ attempts <= cfg.MaxTries)
              => /\ pc = "done"
                 /\ result.kind = "ok"
                 /\ result.data = grData
                 /\ result.data \in DataVals

\* C9 witness: a retryable status, then a clean answer on the second and last
\* permitted attempt.
C9_Witness ==
    /\ cfg.Policy # NoPolicy
    /\ cfg.MaxTries = 2
    /\ attempts = 2
    /\ cnt["RS"] = 1
    /\ last = "CLEAN"
    /\ pc = "done"
    /\ result.kind = "ok"

\* C10: under a retry policy with MaxTries = m, when every response has a
\* non-retryable status and lists an application error with one of the four
\* retryable tags, Run goes on while fewer than m attempts were made, and
\* ends after exactly m with a failure that carries the errors' messages.
C10_AppRetryExhausts ==
    (cfg.Policy # NoPolicy /\ ctxErr = "none" /\ cnt["AR"] = attempts) =>
        /\ attempts < cfg.MaxTries => pc # "done"
        /\ (pc = "done" /\ attempts >= 1)
              => /\ attempts = cfg.MaxTries
                 /\ result.kind = "gql_exhausted"
                 /\ result.tries = cfg.MaxTries
                 /\ Len(grErrors) >= 1
                 /\ \A i \in 1..Len(grErrors) :
                      \E j \in 1..Len(result.errs) :
                          result.errs[j][2] = grErrors[i].Message

\* C10 witness: two application-level attempts, both answered with a
\* retryable application error, and the failure returned.
C10_Witness ==
    /\ cfg.Policy # NoPolicy
    /\ cfg.MaxTries = 2
    /\ ctxErr = "none"
    /\ attempts = 2
    /\ cnt["AR"] = 2
    /\ pc = "done"
    /\ result.kind = "gql_exhausted"

\* whether a text holds the tokens of a payload other than white space, in
\* order and next to one another
ContainsPayload(text, raw) ==
    LET sig == SelectSeq(raw, LAMBDA t : t # "ws")
    IN  \E i \in 1..(Len(text) - Len(sig) + 1) :
            SubSeq(text, i, i + Len(sig) - 1) = sig

InRetryableSet(config, st) ==
    IF config.RetryStatus # {}
    THEN st \in config.RetryStatus
    ELSE st \in (500..599) \cup {429}

C13_NoPolicyOneAttempt ==
    cfg.Policy = NoPolicy =>
        /\ attempts <= 1
        /\ resp # 0 => attempts = 1
        /\ (pc = "done" /\ ctxErr = "none") => attempts = 1
        /\ last = "CLEAN" =>
              /\ pc = "done"
              /\ result.kind = "ok"
              /\ result.data = grData
              /\ result.data \in DataVals

\* C13 witness: without a policy, a 503 with an envelope free of errors, and
\* Run returned its data after the one attempt.
C13_Witness ==
    /\ cfg.Policy = NoPolicy
    /\ resp = 503
    /\ last = "CLEAN"
    /\ attempts = 1
    /\ pc = "done"
    /\ result.kind = "ok"

\* C14: when the body of the response does not decode, Run reports a
\* status-code failure for a status outside 2xx and a decode failure for a
\* status within 2xx.
C14_DecodeFailureByStatus ==
    (pc = "done" /\ last = "UD") =>
        result.kind = IF resp \in 200..299 THEN "decode_error" ELSE "status_error"

\* C15: with the context done, the next step of Run at its context check, at
\* an attempt or in a wait issues no physical attempt, starts no retry, and
\* ends Run with a cancellation failure.
C15_DoneContextStops ==
    [][ (ctxErr # "none" /\ pc \in {"run", "do_plain", "do", "send_wait", "exec_wait"})
          => /\ attempts' = attempts
             /\ pc' = "done"
             /\ result'.kind \in {"ctx", "canceled", "ctx_unexpected", "send_error"}
      ]_vars

RECURSIVE Pow2(_)
Pow2(n) == IF n = 0 THEN 1 ELSE 2 * Pow2(n - 1)

\* C16: in a transport call the wait after the n-th retryable outcome (n from
\* 0) lasts the configured Interval under the linear policy and
\* min(Interval * 2^n, MaxInterval) under the exponential one.
C16_WaitLength ==
    pc = "send_wait" =>
        rcInterval = IF cfg.Policy = Linear
                     THEN cfg.Interval
                     ELSE Min(cfg.Interval * Pow2(tryCount), cfg.MaxInterval)

\* C17: the interval of a wait, of the transport call or of the
\* application-level retry, is at most the configured MaxInterval.
C17_IntervalCapped ==
    /\ pc = "send_wait" => rcInterval <= cfg.MaxInterval
    /\ pc = "exec_wait" => gqlInterval <= cfg.MaxInterval

\* C18: a transport call returns a response only from one of its MaxTries
\* attempts; when all MaxTries attempts ended in a retryable outcome it
\* returns the failure that reports MaxTries attempts and the status of the
\* last attempt that had a response.
C18_ExhaustionReported ==
    cfg.Policy # NoPolicy =>
        /\ pc \in {"send_loop", "do", "send_wait"} => tryCount <= cfg.MaxTries
        /\ pc \in {"do", "send_wait", "decode"} => tryCount < cfg.MaxTries
        /\ (cfg.MaxTries > 0 /\ tryCount = cfg.MaxTries) =>
              /\ pc \in {"send_loop", "done"}
              /\ pc = "done" => result.kind = "http_exhausted"
        /\ (pc = "done" /\ result.kind = "http_exhausted") =>
              /\ result.tries = cfg.MaxTries
              /\ result.status = seen

\* C18 witness: two attempts allowed, a 503 and then a timeout, and the
\* failure reports two attempts and the 503.
C18_Witness ==
    /\ cfg.MaxTries = 2
    /\ pc = "done"
    /\ result.kind = "http_exhausted"
    /\ result.tries = 2
    /\ result.status = 503
    /\ last = "TO"
    /\ cnt["RS"] = 1

\* the Subscribe calls that began before the call of c and took an id
EarlierWithId(c) ==
    {d \in Callers : call[d].pc \notin {"idle", "encode_failed"}
                        /\ call[d].k < call[c].k}

\* C19 as stated: the k-th Subscribe call, counted from 0 over all the calls
\* made, uses the decimal string of k as its id, and no id is used twice.
C19_KthCallGetsK ==
    /\ \A c \in Callers : call[c].id # NoId => call[c].id = Itoa(call[c].k)
    /\ \A c, d \in Callers :
          (c # d /\ call[c].id # NoId /\ call[d].id # NoId)
             => call[c].id # call[d].id

\* C19 amended: a Subscribe call whose request was encoded uses the decimal
\* string of the number of earlier calls whose request was encoded, whatever
\* became of them, and no id is used twice.
C19_SequentialIds ==
    /\ \A c \in Callers :
          call[c].id # NoId => call[c].id = Itoa(Cardinality(EarlierWithId(c)))
    /\ \A c \in Callers : call[c].pc = "encode_failed" => call[c].id = NoId
    /\ \A c, d \in Callers :
          (c # d /\ call[c].id # NoId /\ call[d].id # NoId)
             => call[c].id # call[d].id

\* C19 witness: the start frame of the first call failed to write, and the
\* second call was given the id "1".
C19_Witness ==
    \E c, d \in Callers :
        /\ call[d].pc = "write_failed"
        /\ call[d].k = 0
        /\ call[c].k = 1
        /\ call[c].pc = "done"
        /\ call[c].id = <<1>>

\* C20: a call of Unsubscribe with a sink that is in the registry writes one
\* stop frame, with the id Subscribe registered the sink under; with a sink
\* that is not in the registry it writes nothing; it changes nothing else.
C20_UnsubscribeStops ==
    [][ \A c \in Callers :
          (unsub[c] = "no" /\ unsub'[c] # "no") =>
             /\ UNCHANGED <<subIdGen, subs, subWait, connClosed, wpc, panicking,
                            procDead, pending, delId, visited, rangeMust, call,
                            closePc, closeCount, routed, received>>
             /\ IF Registered(call[c].id) /\ subs[call[c].id] = c
                THEN \/ /\ unsub'[c] = "written"
                        /\ wrote' = Append(wrote, [type |-> gql_stop,
                                                   id |-> call[c].id])
                     \/ /\ unsub'[c] = "write_failed"
                        /\ wrote' = wrote
                ELSE /\ unsub'[c] = "no_match"
                     /\ wrote' = wrote ]_vars

\* C20 witness: two sinks registered, and Unsubscribe for the second wrote a
\* stop frame with the id "1" as the latest frame.
C20_Witness ==
    \E c \in Callers :
        /\ unsub[c] = "written"
        /\ call[c].id = <<1>>
        /\ Len(wrote) = 3
        /\ wrote[3] = [type |-> gql_stop, id |-> <<1>>]

\* C21: once the dispatch loop has exited and closed the sinks that were
\* open, a call of Unsubscribe with one of those sinks writes no frame and
\* changes nothing.
C21_UnsubscribeAfterShutdown ==
    [][ \A c \in Callers :
          (wpc = "exited" /\ closeCount[c] >= 1
              /\ call[c].id \in DOMAIN rangeMust /\ rangeMust[call[c].id] = c
              /\ unsub[c] = "no" /\ unsub'[c] # "no")
            => /\ wrote' = wrote
               /\ UNCHANGED <<subIdGen, subs, subWait, connClosed, wpc, procDead,
                              call, closePc, closeCount, received>> ]_vars

FirstErrorText(errList) == << <<errList[1].Message>> >>

\* C23: when the envelope lists errors, the error Run returns is the first
\* of them, its text "graphql: " followed by that error's message only.
C23_FirstErrorOnly ==
    (pc = "done" /\ last \in {"AN", "AR"}
        /\ result.kind \in {"gql_errors", "gql_exhausted"})
      => result.errs = FirstErrorText(grErrors)

\* C24: once Unsubscribe has returned for a sink, the sink's id is no longer
\* in the registry with that sink.
C24_UnsubscribeRemoves ==
    \A c \in Callers :
        unsub[c] \in {"written", "write_failed", "no_match"}
            => ~(Registered(call[c].id) /\ subs[call[c].id] = c)

\* C25: the read of a frame of type "complete" for a registered id closes the
\* sink of that id and goes on to remove the id from the registry.
C25_ProtocolComplete ==
    [][ (lastRead' = "protocol_complete" /\ nFrames' = nFrames + 1)
          => \E id \in DOMAIN subs :
                /\ closeCount'[subs[id]] = closeCount[subs[id]] + 1
                /\ wpc' = "delete"
                /\ delId' = id ]_vars

\* C26: a first frame of type connection_error without a payload makes the
\* constructor return the server-did-not-acknowledge failure; the process
\* goes on.
C26_ErrorFrameWithoutPayload ==
    (hs.pc # "new" /\ hs.read = "ok" /\ hs.first.type = gql_connection_error
        /\ ~hs.first.hasPayload)
      => /\ hs.pc = "failed"
         /\ hs.err = <<"server-did-not-acknowledge">>
         /\ procDead = "no"

\* the calls of WriteJSON that have begun and not returned
WritesInProgress ==
    {<<gql_start, c>> : c \in {d \in Callers : call[d].pc = "writing"}}
    \cup {<<gql_stop, c>> : c \in {d \in Callers : unsub[d] = "writing"}}
    \cup (IF closePc = "writing" THEN {<<gql_connection_terminate, 0>>} ELSE {})

\* C27: at any time at most one write of an outbound frame (start, stop or
\* terminate) is in progress on the connection.
C27_OneWriter == Cardinality(WritesInProgress) <= 1

\* C28: a Run whose context is not done makes at least one physical attempt
\* before it returns, whatever the retry configuration.
C28_AtLeastOneAttempt ==
    (pc = "done" /\ ctxErr = "none") => attempts >= 1

\* C29: in a transport call under a policy, an attempt that fails with a
\* timeout goes into a retry, an attempt that fails with any other network
\* error ends the call and Run at once with that failure, and a nil error is
\* not retryable.
C29_OnlyTimeoutsRetried ==
    /\ ~isErrRetryable("nil")
    /\ isErrRetryable("timeout")
    /\ ~isErrRetryable("neterr")
    /\ [][ (pc = "do" /\ attempts' = attempts + 1) =>
             /\ cnt'["TO"] = cnt["TO"] + 1
                   => (pc' = "send_wait" /\ result' = result)
             /\ cnt'["NE"] = cnt["NE"] + 1
                   => (pc' = "done" /\ result'.kind = "send_error"
                          /\ tryCount' = tryCount) ]_vars

\* C29 witness: a timeout was retried, and the network error of the second
\* attempt ended Run.
C29_Witness ==
    /\ cfg.Policy # NoPolicy
    /\ attempts = 2
    /\ cnt["TO"] = 1
    /\ last = "NE"
    /\ pc = "done"
    /\ result.kind = "send_error"

\* C30: a wait (and the observer call before it) happens only when another
\* attempt is permitted after it, in the transport call and in the
\* application-level loop.
C30_NoWaitAfterLastAttempt ==
    /\ pc = "send_wait" => tryCount + 1 < cfg.MaxTries
    /\ pc = "exec_wait" => gqlTry + 1 < cfg.MaxTries

\* C31: an envelope that lists an error with a retryable tag is retried at
\* the application level whenever an attempt is left, whatever the status of
\* the response and whatever HTTP-level retries came before it: Run does not
\* return the envelope's errors while an attempt is left.
C31_TagsAndBudgetOnly ==
    (pc = "done" /\ last = "AR" /\ result.kind = "gql_errors")
        => gqlTry + 1 >= cfg.MaxTries

\* C32: the waits of the transport call and the waits of the
\* application-level retry run on one interval state: under the exponential
\* policy the interval of a wait at one level is not below the interval the
\* other level has reached.
C32_SharedBackoff ==
    cfg.Policy = ExponentialBackoff =>
        /\ pc = "send_wait" => rcInterval >= gqlInterval
        /\ pc = "exec_wait" => gqlInterval >= rcInterval

\* C33: when the envelope of the latest exchange lists no errors, also by
\* having no errors field, Run has returned its data without an error.
C33_CleanEnvelopeSucceeds ==
    last = "CLEAN" => (pc = "done" /\ result.kind = "ok")

\* C34: while subWork is sending to a sink and the consumer has not taken
\* the value, subWork reads no frame, closes no sink and delivers nothing:
\* the only delivery that can happen is the pending one, to its own sink.
C34_BlockedWhileUndelivered ==
    [][wpc = "send" =>
          /\ nFrames' = nFrames
          /\ lastRead' = lastRead
          /\ routed' = routed
          /\ closeCount' = closeCount
          /\ \/ received' = received
             \/ received' = [received EXCEPT ![pending.sink] =
                                Append(@, <<pending.field, pending.payload>>)]]_vars

\* a delivery is pending while a second subscription is registered and the
\* server may send more frames
C34_Witness ==
    /\ wpc = "send"
    /\ nFrames < MaxFrames
    /\ ~connClosed
    /\ \E id \in DOMAIN subs : subs[id] # pending.sink

\* the outcomes Run can end in: success; a failure that is not retried; the
\* attempts used up; the context found done
TerminalKinds ==
    {"ok", "gql_errors", "send_error", "decode_error", "gql_exhausted",
     "http_exhausted", "ctx", "ctx_unexpected", "canceled"}

\* C35: when every exchange returns and every timer fires, Run ends; it ends
\* with one outcome, set at the step that ends it, and after that step Run
\* makes no exchange, calls no observer, waits for nothing and changes
\* nothing.
C35_RunEnds ==
    /\ <>(pc = "done")
    /\ []((result.kind # "none") <=> (pc = "done"))
    /\ [](pc = "done" => result.kind \in TerminalKinds)
    /\ [][result.kind # "none" => UNCHANGED runVars]_vars

\* a Run that ended with its attempts used up at both levels
C35_Witness ==
    /\ pc = "done"
    /\ result.kind = "gql_exhausted"
    /\ attempts = MaxTriesBound
    /\ cnt["AR"] = MaxTriesBound

\* C39: no step of Run changes the client's retry configuration, and the
\* first wait of a Run, at either level, lasts the configured interval.
C39_ConfigUntouched ==
    /\ [][cfg' = cfg]_vars
    /\ [](pc = "send_wait" /\ tryCount = 0 => rcInterval = cfg.Interval)
    /\ [](pc = "exec_wait" /\ gqlTry = 0 => gqlInterval = cfg.Interval)

\* an exponential policy has raised the interval at both levels of one Run
C39_Witness ==
    /\ cfg.Policy = ExponentialBackoff
    /\ cfg.Interval = 1
    /\ gqlInterval > cfg.Interval
    /\ rcInterval > cfg.Interval

\* C36: a sink that Subscribe returned is closed, at the latest after
\* subWork has left its loop and run its teardown, unless the process ended.
C36_SinkClosedAfterShutdown ==
    \A c \in Callers :
        (call[c].pc = "done" /\ wpc = "exited")
            ~> (closeCount[c] >= 1 \/ procDead # "no")

\* C37: Close, waiting for subWork after it wrote the terminate frame,
\* returns when the server ends the stream, unless the process ended.
C37_CloseReturns ==
    (closePc = "wait") ~> (closePc = "done" \/ procDead # "no")

\* C38: subWork never sends to a sink that was closed: a value waiting to be
\* taken waits on an open sink, and no data or error frame for a registered
\* id ends in the panic of a send on a closed channel.
C38_NoSendOnClosedSink ==
    /\ [](wpc = "send" => closeCount[pending.sink] = 0)
    /\ [][~(/\ nFrames' = nFrames + 1
            /\ lastRead' = "frame"
            /\ panicking' /\ ~panicking
            /\ closeCount' = closeCount)]_vars

\* after a complete frame closed a sink, a further frame arrived for an id
\* that is no longer registered
C38_Witness ==
    /\ lastRead = "unknown_id"
    /\ \E c \in Callers :
         /\ closeCount[c] = 1
         /\ call[c].pc = "done"
         /\ ~Registered(call[c].id)

\* C40: Close on a client that has no connection returns nil at once: it
\* writes no frame, does not wait, and leaves the client as it was.
C40_CloseWithoutConnection ==
    /\ [](hs.pc = "zero" =>
            /\ closePc \in {"idle", "returned_nil"}
            /\ wrote = <<>>
            /\ ~connClosed
            /\ procDead = "no")
    /\ [][(hs.pc = "zero" /\ closePc' # closePc) =>
            /\ closePc' = "returned_nil"
            /\ UNCHANGED <<subIdGen, subs, subWait, connClosed, wrote, wpc,
                           panicking, procDead, pending, delId, visited,
                           rangeMust, call, unsub, hs, closeCount, routed,
                           received, nFrames, lastRead>>]_vars

\* Close has returned nil on a client without a connection
C40_Witness ==
    /\ hs.pc = "zero"
    /\ closePc = "returned_nil"
    /\ wrote = <<>>

=============================================================================
